---- MODULE Spec2Model ----
(***************************************************************************)
(* A model of diart's audio sources (src/diart/sources.py), lazy model     *)
(* wrappers (src/diart/models.py) and streaming configuration              *)
(* (src/diart/blocks/base.py).                                             *)
(*                                                                         *)
(* Each component has its own specification over the shared variables:     *)
(*   SpecFile      FileAudioSource.read()                                  *)
(*   SpecLazy      one thread using a pyannote wrapper of LazyModel        *)
(*   SpecLazyConc  several threads using the LazyModel operations          *)
(*   SpecWs        WebSocketAudioSource: server loop, clients, send()      *)
(*   SpecWsHandler WebSocketAudioSource: server loop and clients           *)
(*   SpecMic       MicrophoneAudioSource: read() and the capture callback  *)
(*   SpecMicFair   SpecMic with the thread of read() scheduled fairly      *)
(*   SpecTorch     TorchStreamAudioSource.read()                           *)
(*   SpecCfg       StreamingConfig.optimal_block_size()                    *)
(* The variables of the components a specification does not use keep their *)
(* initial values.                                                         *)
(***************************************************************************)
EXTENDS Integers, Sequences, FiniteSets, TLC

VARIABLES
    \* AudioSource
    stream,         \* the calls made on self.stream (the rx Subject), in order
    \* FileAudioSource
    file_pc,        \* position of read(): "start", "loaded", "emit", "done", "raised"
    waveform,       \* the samples loader.load(file) returns (one channel)
    block_size,     \* self.block_size
    chunks,         \* the local array `chunks` of read()
    next_chunk,     \* number of chunks the for loop of read() has gone through
    file_exc,       \* the exception read() raised to its caller, or "none"
    \* LazyModel
    model,          \* self.model: NoModel (None) or the object the loader returned
    loader_calls,   \* number of invocations of self.get_model
    model_assigns,  \* number of assignments to self.model made by load()
    threads,        \* the threads that use the LazyModel
    lazy_pc,        \* per thread: "idle", "loading", "assign", "body"
    lazy_op,        \* per thread: the operation in progress
    lazy_tmp,       \* per thread: the value get_model() returned, not yet stored
    lazy_started,   \* number of operations started so far
    history,        \* the operations completed so far, in order
    lazy_class,     \* the wrapper's class: "Segmentation" or "Embedding"
                    \* (PyannoteSegmentationModel, PyannoteEmbeddingModel)
    input_device,   \* where the caller keeps its tensors: "cpu" or "cuda"
    lazy_args,      \* per thread: the weights of the embedding call in
                    \* progress and the branch its isinstance test took
    lazy_embeds,    \* number of embedding calls started so far
    \* WebSocketAudioSource
    ws_read,        \* "not_called", or "running": asyncio.run(_async_read()) is
                    \* running the server loop on the thread that called read()
    websocket,      \* self.websocket: 0 (None) or the latest connection
    conns,          \* per connection: "new", "open" (its handler is iterating),
                    \* "ended" (its handler returned or raised)
    ws_inbound,     \* number of inbound messages handled so far
    ws_scheduled,   \* per event loop: the _async_send coroutines not yet run
    ws_sent,        \* the messages handed to a connection's send(), in order
    ws_failed,      \* the _async_send coroutines that ended with an exception
    ws_sends,       \* the calls of send() made so far, with their outcome
    ws_origin,      \* per call on the stream: the connection whose handler made it
    ws_received,    \* per connection: the messages its handler received, in order
    ws_ended_by,    \* per connection: how its handler ended: "none" (it has not),
                    \* "clean", "abnormal", "decode" or "push" (an exception)
    \* MicrophoneAudioSource
    mic_pc,         \* position of read(): "start", "loop" (in the while loop,
                    \* at self.queue.get()), "done"
    mic_device,     \* self.mic_stream: "idle", "running" or "stopped"
    mic_queue,      \* self.queue: the blocks put and not yet taken, oldest first
    mic_captured,   \* the blocks the capture callback was given, in capture order
    \* TorchStreamAudioSource
    torch_pc,       \* position of read(): "iterating", "done", "raised"
    torch_items,    \* the items self._streamer.stream() has to yield, in order
    torch_fails_at, \* the item at which the decoder raises instead, or 0
    torch_next,     \* number of items the for loop of read() has gone through
    torch_exc,      \* the exception read() raised to its caller, or "none"
    torch_failed,   \* a conversion or a push raised inside the loop body
    \* StreamingConfig
    cfg_step,       \* self.step in seconds, as a fraction <<numerator, denominator>>
    cfg_sample_rate,\* self.sample_rate
    cfg_calls       \* the calls of optimal_block_size() made so far, each with
                    \* the duration and latency of the configuration and the result

fileVars == <<file_pc, waveform, block_size, chunks, next_chunk, file_exc>>
lazyExtra == <<lazy_class, input_device, lazy_args, lazy_embeds>>
lazyVars == <<model, loader_calls, model_assigns, threads, lazy_pc, lazy_op,
              lazy_tmp, lazy_started, history, lazyExtra>>
wsVars == <<ws_read, websocket, conns, ws_inbound, ws_scheduled, ws_sent,
            ws_failed, ws_sends, ws_origin, ws_received, ws_ended_by>>
micVars == <<mic_pc, mic_device, mic_queue, mic_captured>>
torchVars == <<torch_pc, torch_items, torch_fails_at, torch_next, torch_exc,
               torch_failed>>
cfgVars == <<cfg_step, cfg_sample_rate, cfg_calls>>
vars == <<stream, fileVars, lazyVars, wsVars, micVars, torchVars, cfgVars>>

----------------------------------------------------------------------------
(* Bounds of the model *)

\* Longest enumerated waveform, in samples
MaxSamples == 5
\* Largest enumerated block size
MaxBlock == 3
\* Number of operations invoked on a LazyModel
MaxOps == 4
\* Number of threads sharing a LazyModel
NumThreads == 2
\* Number of embedding calls made on a PyannoteEmbeddingModel
MaxEmbeds == 1
\* Number of client connections a websocket server accepts
MaxConns == 2
\* Number of inbound websocket messages
MaxInbound == 2
\* Number of calls of WebSocketAudioSource.send()
MaxSends == 2
\* Number of blocks the capture device delivers to a MicrophoneAudioSource
MaxCaptured == 3
\* Number of items the decoder of a TorchStreamAudioSource yields
MaxItems == 2
\* Number of calls of StreamingConfig.optimal_block_size()
MaxCalls == 2
\* Largest numerator of the step of a StreamingConfig
MaxStepNum == 3
\* Largest duration of a StreamingConfig, in steps
MaxWindowSteps == 2

\* The value of self.block_size set by the constructors
DefaultBlockSize == 1024

\* Sample values: silence and a non-zero value
SampleValues == {0, 1}

----------------------------------------------------------------------------
(* Helpers *)

Zeros(k) == [i \in 1..k |-> 0]

RECURSIVE Flatten(_)
\* Concatenation of a sequence of sequences
Flatten(ss) == IF ss = <<>> THEN <<>> ELSE Head(ss) \o Flatten(Tail(ss))

\* Sequences over S of length 0..n
SeqsUpTo(S, n) == UNION {[1..k -> S] : k \in 0..n}

----------------------------------------------------------------------------
(* rx Subject: the calls a source makes on self.stream *)

OnNext(chunk, raised) == [kind |-> "next", chunk |-> chunk, raised |-> raised]
OnError(exc) == [kind |-> "error", chunk |-> <<>>, raised |-> FALSE, exc |-> exc]
OnCompleted == [kind |-> "completed", chunk |-> <<>>, raised |-> FALSE]

IsTerminal(call) == call.kind \in {"error", "completed"}

\* Indices of the calls of a given kind in a call sequence
CallsOf(log, kinds) == {i \in 1..Len(log) : log[i].kind \in kinds}

\* The chunks passed to on_next, in call order
PushedChunks(log) ==
    LET idx == CallsOf(log, {"next"})
        RECURSIVE Collect(_)
        Collect(i) == IF i > Len(log) THEN <<>>
                      ELSE IF i \in idx THEN <<log[i].chunk>> \o Collect(i + 1)
                      ELSE Collect(i + 1)
    IN Collect(1)

----------------------------------------------------------------------------
(* Components not in use *)

\* A MicrophoneAudioSource nobody reads
MicIdle ==
    /\ mic_pc = "start"
    /\ mic_device = "idle"
    /\ mic_queue = <<>>
    /\ mic_captured = <<>>

\* A TorchStreamAudioSource nobody reads
TorchIdle ==
    /\ torch_pc = "iterating"
    /\ torch_items = <<>>
    /\ torch_fails_at = 0
    /\ torch_next = 0
    /\ torch_exc = "none"
    /\ torch_failed = FALSE

\* A StreamingConfig nobody asks
CfgIdle ==
    /\ cfg_step = <<1, 2>>
    /\ cfg_sample_rate = 16000
    /\ cfg_calls = <<>>

OthersIdle == MicIdle /\ TorchIdle /\ CfgIdle

----------------------------------------------------------------------------
(* WebSocketAudioSource *)

\* The event loops: the one asyncio.run() creates in read(), and a loop of
\* the application's own, running on another thread
Loops == {"server", "other"}

\* Where send() is called from: a callback running on the server loop (a
\* subscriber of the stream, called by _ws_handler), a thread that runs no
\* event loop, or a coroutine of the application's own loop
Contexts == {"server_loop", "thread", "other_loop"}

\* The messages passed to send(): an empty and a non-empty one
OutMessages == {"", "hi"}

\* Inbound messages: base64 text of float32 samples, or text that is not
InMessages == {"chunk", "malformed"}

\* asyncio.get_running_loop() in the calling context: the loop running on
\* the calling thread, or "none" (it raises RuntimeError)
GetRunningLoop(ctx) ==
    CASE ctx = "server_loop" -> "server"
      [] ctx = "other_loop" -> "other"
      [] OTHER -> "none"

\* A WebSocketAudioSource after __init__
WsIdle ==
    /\ ws_read = "not_called"
    /\ websocket = 0
    /\ conns = [c \in 1..MaxConns |-> "new"]
    /\ ws_inbound = 0
    /\ ws_scheduled = [l \in Loops |-> <<>>]
    /\ ws_sent = <<>>
    /\ ws_failed = <<>>
    /\ ws_sends = <<>>
    /\ ws_origin = <<>>
    /\ ws_received = [c \in 1..MaxConns |-> <<>>]
    /\ ws_ended_by = [c \in 1..MaxConns |-> "none"]

\* read(): asyncio.run(self._async_read()) starts the server loop
WsRead ==
    /\ ws_read = "not_called"
    /\ ws_read' = "running"
    /\ UNCHANGED <<websocket, conns, ws_inbound, ws_scheduled, ws_sent,
                   ws_failed, ws_sends, ws_origin, ws_received, ws_ended_by,
                   stream, fileVars, lazyVars, micVars, torchVars, cfgVars>>

\* _ws_handler, line 141: a client connects and its handler starts
WsConnect(c) ==
    /\ ws_read = "running"
    /\ conns[c] = "new"
    /\ \A d \in 1..(c - 1) : conns[d] # "new"
    /\ websocket' = c
    /\ conns' = [conns EXCEPT ![c] = "open"]
    /\ UNCHANGED <<ws_read, ws_inbound, ws_scheduled, ws_sent, ws_failed,
                   ws_sends, ws_origin, ws_received, ws_ended_by, stream,
                   fileVars, lazyVars, micVars, torchVars, cfgVars>>

\* _ws_handler, lines 143-149: one inbound message of connection c. Decoding
\* a malformed message raises, and so may the push; neither exception is a
\* ConnectionClosedError, so it leaves the handler without any signal
WsMessage(c, msg, raised) ==
    /\ conns[c] = "open"
    /\ ws_inbound < MaxInbound
    /\ ws_inbound' = ws_inbound + 1
    /\ ws_received' = [ws_received EXCEPT ![c] =
                           Append(@, [id |-> ws_inbound + 1, kind |-> msg])]
    /\ IF msg = "malformed"
       THEN /\ conns' = [conns EXCEPT ![c] = "ended"]
            /\ ws_ended_by' = [ws_ended_by EXCEPT ![c] = "decode"]
            /\ UNCHANGED <<stream, ws_origin>>
       ELSE /\ stream' = Append(stream, OnNext(<<c, ws_inbound + 1>>, raised))
            /\ ws_origin' = Append(ws_origin, c)
            /\ conns' = IF raised THEN [conns EXCEPT ![c] = "ended"] ELSE conns
            /\ ws_ended_by' = IF raised
                              THEN [ws_ended_by EXCEPT ![c] = "push"]
                              ELSE ws_ended_by
    /\ UNCHANGED <<ws_read, websocket, ws_scheduled, ws_sent, ws_failed,
                   ws_sends, fileVars, lazyVars, micVars, torchVars, cfgVars>>

\* _ws_handler, line 150: the message stream of connection c ends cleanly
WsCloseClean(c) ==
    /\ conns[c] = "open"
    /\ stream' = Append(stream, OnCompleted)
    /\ ws_origin' = Append(ws_origin, c)
    /\ conns' = [conns EXCEPT ![c] = "ended"]
    /\ ws_ended_by' = [ws_ended_by EXCEPT ![c] = "clean"]
    /\ UNCHANGED <<ws_read, websocket, ws_inbound, ws_scheduled, ws_sent,
                   ws_failed, ws_sends, ws_received, fileVars, lazyVars,
                   micVars, torchVars, cfgVars>>

\* The signal _ws_handler issues for a ConnectionClosedError
AbnormalCloseSignalCompleted == OnCompleted

AbnormalCloseSignal == OnError("closed")

\* _ws_handler, lines 151-152: the peer closes connection c abnormally
WsCloseAbnormal(c) ==
    /\ conns[c] = "open"
    /\ stream' = Append(stream, AbnormalCloseSignal)
    /\ ws_origin' = Append(ws_origin, c)
    /\ conns' = [conns EXCEPT ![c] = "ended"]
    /\ ws_ended_by' = [ws_ended_by EXCEPT ![c] = "abnormal"]
    /\ UNCHANGED <<ws_read, websocket, ws_inbound, ws_scheduled, ws_sent,
                   ws_failed, ws_sends, ws_received, fileVars, lazyVars,
                   micVars, torchVars, cfgVars>>

\* Whether code can be running in calling context ctx: a callback on the
\* server loop runs only under the handler of an open connection
ContextExists(ctx) ==
    ctx = "server_loop" => \E c \in 1..MaxConns : conns[c] = "open"

SendOutcomeNeverRaises(loop) == "returned"

\* send(), lines 175-181: RuntimeError when the calling thread runs no loop
SendOutcome(loop) == IF loop = "none" THEN "raised" ELSE "returned"

\* send(message) called in context ctx, lines 165-186
WsSend(ctx, message) ==
    /\ ContextExists(ctx)
    /\ Len(ws_sends) < MaxSends
    /\ LET loop == GetRunningLoop(ctx)
           outcome == SendOutcome(loop)
           schedules == outcome = "returned" /\ message # ""
       IN /\ ws_scheduled' =
                 IF schedules
                 THEN [ws_scheduled EXCEPT ![loop] = Append(@, message)]
                 ELSE ws_scheduled
          /\ ws_sends' = Append(ws_sends,
                 [ctx |-> ctx, message |-> message,
                  read_running |-> ws_read = "running",
                  connected |-> websocket # 0 /\ conns[websocket] = "open",
                  outcome |-> outcome,
                  scheduled_on |-> IF schedules THEN loop ELSE "none"])
    /\ UNCHANGED <<ws_read, websocket, conns, ws_inbound, ws_sent, ws_failed,
                   ws_origin, ws_received, ws_ended_by, stream, fileVars,
                   lazyVars, micVars, torchVars, cfgVars>>

\* _async_send, lines 158-159, run by an event loop: the message goes to
\* self.websocket; with self.websocket None or closed the coroutine ends with
\* an exception that stays in its future
WsAsyncSend(loop) ==
    /\ ws_scheduled[loop] # <<>>
    /\ loop = "server" => ws_read = "running"
    /\ ws_scheduled' = [ws_scheduled EXCEPT ![loop] = Tail(@)]
    /\ IF websocket # 0 /\ conns[websocket] = "open"
       THEN /\ ws_sent' = Append(ws_sent,
                   [message |-> Head(ws_scheduled[loop]), conn |-> websocket,
                    loop |-> loop])
            /\ UNCHANGED ws_failed
       ELSE /\ ws_failed' = Append(ws_failed,
                   [message |-> Head(ws_scheduled[loop]), loop |-> loop])
            /\ UNCHANGED ws_sent
    /\ UNCHANGED <<ws_read, websocket, conns, ws_inbound, ws_sends,
                   ws_origin, ws_received, ws_ended_by, stream, fileVars,
                   lazyVars, micVars, torchVars, cfgVars>>

WsNext ==
    \/ WsRead
    \/ \E c \in 1..MaxConns : WsConnect(c)
    \/ \E c \in 1..MaxConns, msg \in InMessages, raised \in BOOLEAN :
          WsMessage(c, msg, raised)
    \/ \E c \in 1..MaxConns : WsCloseClean(c)
    \/ \E c \in 1..MaxConns : WsCloseAbnormal(c)
    \/ \E ctx \in Contexts, message \in OutMessages : WsSend(ctx, message)
    \/ \E loop \in Loops : WsAsyncSend(loop)

\* The server side alone: read() and the connection handlers
WsHandlerNext ==
    \/ WsRead
    \/ \E c \in 1..MaxConns : WsConnect(c)
    \/ \E c \in 1..MaxConns, msg \in InMessages, raised \in BOOLEAN :
          WsMessage(c, msg, raised)
    \/ \E c \in 1..MaxConns : WsCloseClean(c)
    \/ \E c \in 1..MaxConns : WsCloseAbnormal(c)

----------------------------------------------------------------------------
(* LazyModel *)

\* self.model = None
NoModel == [id |-> 0, kind |-> "None", training |-> FALSE]

\* What the loader can return (PyannoteLoader.__call__): a torch module, or
\* the WeSpeaker embedding extractor
ModelKinds == {"Module", "WeSpeaker"}

\* The operations of a LazyModel
AccessOps == {"load", "to", "call", "eval"}

\* The concrete wrappers
WrapperClasses == {"Segmentation", "Embedding"}

\* The properties of PyannoteSegmentationModel that call load() first
SegmentationProps == {"sample_rate", "duration"}

\* The operations of a wrapper that start with LazyModel.load() and then use
\* self.model; PyannoteEmbeddingModel overrides __call__
LoadingOps(cls) ==
    IF cls = "Embedding" THEN AccessOps \ {"call"}
    ELSE AccessOps \cup SegmentationProps

\* weights = None
NoWeights == <<>>

\* The weights of an embedding call: None, or one row of two weights
WeightValues == {0, 1, 2}
WeightRows == {NoWeights} \cup [1..2 -> WeightValues]

\* No embedding call in progress
NoArgs == [weights |-> NoWeights, branch |-> "none"]

RECURSIVE GCD(_, _)
GCD(a, b) == IF b = 0 THEN a ELSE GCD(b, a % b)

\* The number n / d, as a reduced fraction
Frac(n, d) == LET g == GCD(n, d) IN <<n \div g, d \div g>>

\* Weights as the caller passed them
Raw(w) == [i \in 1..Len(w) |-> Frac(w[i], 1)]

\* PyannoteEmbeddingModel.__call__, lines 179-181: the row minimum is
\* subtracted, the row is divided by its maximum, nan (0 / 0) becomes 0
Normalized(w) ==
    LET lo == CHOOSE x \in {w[i] : i \in 1..Len(w)} :
                  \A i \in 1..Len(w) : x <= w[i]
        shifted == [i \in 1..Len(w) |-> w[i] - lo]
        hi == CHOOSE x \in {shifted[i] : i \in 1..Len(w)} :
                  \A i \in 1..Len(w) : x >= shifted[i]
    IN [i \in 1..Len(w) |-> IF hi = 0 THEN Frac(0, 1)
                                      ELSE Frac(shifted[i], hi)]

\* A never-used LazyModel with no thread using it
LazyIdle ==
    /\ model = NoModel
    /\ loader_calls = 0
    /\ model_assigns = 0
    /\ threads = {}
    /\ lazy_pc = <<>>
    /\ lazy_op = <<>>
    /\ lazy_tmp = <<>>
    /\ lazy_started = 0
    /\ history = <<>>
    /\ lazy_class = "none"
    /\ input_device = "cpu"
    /\ lazy_args = <<>>
    /\ lazy_embeds = 0

\* LazyModel.__init__, used by the threads ts
LazyInitFor(ts) ==
    /\ model = NoModel
    /\ loader_calls = 0
    /\ model_assigns = 0
    /\ threads = ts
    /\ lazy_pc = [t \in ts |-> "idle"]
    /\ lazy_op = [t \in ts |-> "none"]
    /\ lazy_tmp = [t \in ts |-> NoModel]
    /\ lazy_started = 0
    /\ history = <<>>
    /\ lazy_class \in WrapperClasses
    /\ input_device \in {"cpu", "cuda"}
    /\ lazy_args = [t \in ts |-> NoArgs]
    /\ lazy_embeds = 0

\* LazyModel.is_in_memory
IsInMemory(m) == m # NoModel

NeedsLoadAlways(m) == TRUE

\* The test of load(): `not self.is_in_memory()`
NeedsLoad(m) == ~IsInMemory(m)

\* is_in_memory() called by thread t
LazyIsInMemory(t) ==
    /\ lazy_pc[t] = "idle"
    /\ lazy_started < MaxOps
    /\ lazy_started' = lazy_started + 1
    /\ history' = Append(history, [op |-> "is_in_memory", thread |-> t,
                                   result |-> IsInMemory(model)])
    /\ UNCHANGED <<model, loader_calls, model_assigns, threads, lazy_pc,
                   lazy_op, lazy_tmp, stream, fileVars, wsVars,
                   lazyExtra, micVars, torchVars, cfgVars>>

\* Thread t calls load(), to(), __call__() or eval(): each starts with load(),
\* whose test `not self.is_in_memory()` (line 49) reads self.model
LazyEnter(t, op) ==
    /\ lazy_pc[t] = "idle"
    /\ lazy_started < MaxOps
    /\ lazy_started' = lazy_started + 1
    /\ lazy_op' = [lazy_op EXCEPT ![t] = op]
    /\ lazy_pc' = [lazy_pc EXCEPT ![t] =
                       IF NeedsLoad(model) THEN "loading" ELSE "body"]
    /\ UNCHANGED <<model, loader_calls, model_assigns, threads, lazy_tmp,
                   history, stream, fileVars, wsVars,
                   lazyExtra, micVars, torchVars, cfgVars>>

\* load(), line 50, right-hand side: self.get_model() runs and returns a
\* fresh model object
LazyGetModel(t) ==
    /\ lazy_pc[t] = "loading"
    /\ loader_calls' = loader_calls + 1
    /\ \E kind \in ModelKinds :
          lazy_tmp' = [lazy_tmp EXCEPT ![t] =
                          [id |-> loader_calls + 1, kind |-> kind,
                           training |-> TRUE]]
    /\ lazy_pc' = [lazy_pc EXCEPT ![t] = "assign"]
    /\ UNCHANGED <<model, model_assigns, threads, lazy_op, lazy_started,
                   history, stream, fileVars, wsVars,
                   lazyExtra, micVars, torchVars, cfgVars>>

\* load(), line 50, the store into self.model
LazyAssign(t) ==
    /\ lazy_pc[t] = "assign"
    /\ model' = lazy_tmp[t]
    /\ model_assigns' = model_assigns + 1
    /\ lazy_pc' = [lazy_pc EXCEPT ![t] = "body"]
    /\ UNCHANGED <<loader_calls, threads, lazy_op, lazy_tmp, lazy_started,
                   history, stream, fileVars, wsVars,
                   lazyExtra, micVars, torchVars, cfgVars>>

\* The rest of the operation after load() returned: to() and __call__()
\* delegate to self.model, eval() switches a torch module to inference mode
LazyBody(t) ==
    /\ lazy_pc[t] = "body"
    /\ lazy_op[t] # "embed"
    /\ model' = IF lazy_op[t] = "eval" /\ model.kind # "WeSpeaker"
                THEN [model EXCEPT !.training = FALSE]
                ELSE model
    /\ history' = Append(history, [op |-> lazy_op[t], thread |-> t,
                                   result |-> IsInMemory(model)])
    /\ lazy_pc' = [lazy_pc EXCEPT ![t] = "idle"]
    /\ lazy_op' = [lazy_op EXCEPT ![t] = "none"]
    /\ UNCHANGED <<loader_calls, model_assigns, threads, lazy_tmp,
                   lazy_started, stream, fileVars, wsVars,
                   lazyExtra, micVars, torchVars, cfgVars>>

\* PyannoteSegmentationModel.forward, line 136: self.model is called as it
\* is, without load(); calling None raises TypeError
SegForward(t) ==
    /\ lazy_class = "Segmentation"
    /\ lazy_pc[t] = "idle"
    /\ lazy_started < MaxOps
    /\ lazy_started' = lazy_started + 1
    /\ history' = Append(history, [op |-> "forward", thread |-> t,
                                   result |-> IsInMemory(model)])
    /\ UNCHANGED <<model, loader_calls, model_assigns, threads, lazy_pc,
                   lazy_op, lazy_tmp, stream, fileVars, wsVars, lazyExtra,
                   micVars, torchVars, cfgVars>>

\* PyannoteEmbeddingModel.__call__, line 173: the isinstance test reads
\* self.model as it is now (None is no WeSpeaker extractor)
EmbedBranch(m) == IF m.kind = "WeSpeaker" THEN "normalize" ELSE "super"

\* PyannoteEmbeddingModel.__call__(waveform, weights), lines 173-176: the
\* isinstance test, then load() on either branch (through
\* LazyModel.__call__ on the first, directly on the second)
EmbedEnter(t, weights) ==
    /\ lazy_class = "Embedding"
    /\ lazy_pc[t] = "idle"
    /\ lazy_started < MaxOps
    /\ lazy_embeds < MaxEmbeds
    /\ lazy_started' = lazy_started + 1
    /\ lazy_embeds' = lazy_embeds + 1
    /\ lazy_op' = [lazy_op EXCEPT ![t] = "embed"]
    /\ lazy_args' = [lazy_args EXCEPT ![t] =
                         [weights |-> weights, branch |-> EmbedBranch(model)]]
    /\ lazy_pc' = [lazy_pc EXCEPT ![t] =
                       IF NeedsLoad(model) THEN "loading" ELSE "body"]
    /\ UNCHANGED <<model, loader_calls, model_assigns, threads, lazy_tmp,
                   history, lazy_class, input_device, stream, fileVars,
                   wsVars, micVars, torchVars, cfgVars>>

\* PyannoteEmbeddingModel.__call__ after load(): LazyModel.__call__, line 58,
\* passes the arguments on as they are; lines 178-186 normalize the weights
\* and move weights and waveform to the cpu first
EmbedBody(t) ==
    /\ lazy_pc[t] = "body"
    /\ lazy_op[t] = "embed"
    /\ LET args == lazy_args[t]
           normalize == args.branch = "normalize"
       IN history' = Append(history,
              [op |-> "embed", thread |-> t, result |-> IsInMemory(model),
               kind |-> model.kind, weights |-> args.weights,
               received |-> IF normalize /\ args.weights # NoWeights
                            THEN Normalized(args.weights)
                            ELSE Raw(args.weights),
               device |-> IF normalize THEN "cpu" ELSE input_device])
    /\ lazy_pc' = [lazy_pc EXCEPT ![t] = "idle"]
    /\ lazy_op' = [lazy_op EXCEPT ![t] = "none"]
    /\ lazy_args' = [lazy_args EXCEPT ![t] = NoArgs]
    /\ UNCHANGED <<model, loader_calls, model_assigns, threads, lazy_tmp,
                   lazy_started, lazy_class, input_device, lazy_embeds, stream,
                   fileVars, wsVars, micVars, torchVars, cfgVars>>

LazyNext ==
    \/ \E t \in threads : LazyIsInMemory(t)
    \/ \E t \in threads, op \in LoadingOps(lazy_class) : LazyEnter(t, op)
    \/ \E t \in threads : LazyGetModel(t)
    \/ \E t \in threads : LazyAssign(t)
    \/ \E t \in threads : LazyBody(t)
    \/ \E t \in threads : SegForward(t)
    \/ \E t \in threads, weights \in WeightRows : EmbedEnter(t, weights)
    \/ \E t \in threads : EmbedBody(t)

\* The operations of the LazyModel base class alone
LazyBaseNext ==
    \/ \E t \in threads : LazyIsInMemory(t)
    \/ \E t \in threads, op \in AccessOps : LazyEnter(t, op)
    \/ \E t \in threads : LazyGetModel(t)
    \/ \E t \in threads : LazyAssign(t)
    \/ \E t \in threads : LazyBody(t)

----------------------------------------------------------------------------
(* FileAudioSource *)

\* torch.Tensor.unfold(1, size, step) raises when size exceeds the dimension
UnfoldRaises(w, size) == size > Len(w)

\* waveform.unfold(1, size, step), rearranged to one chunk per row
Unfold(w, size, step) ==
    LET count == ((Len(w) - size) \div step) + 1
    IN [k \in 1..count |-> SubSeq(w, (k - 1) * step + 1, (k - 1) * step + size)]

LastChunkUnpadded(w, bs, whole) == SubSeq(w, whole * bs + 1, Len(w))

\* The padded last chunk of read(): the samples after the whole chunks,
\* followed by zeros up to block_size
LastChunk(w, bs, whole) ==
    LET last_chunk == SubSeq(w, whole * bs + 1, Len(w))
        diff_samples == bs - Len(last_chunk)
    IN last_chunk \o Zeros(diff_samples)

\* The array `chunks` read() iterates over
FileChunks(w, bs) ==
    LET whole == Unfold(w, bs, bs)
    IN IF Len(w) % bs # 0
       THEN Append(whole, LastChunk(w, bs, Len(whole)))
       ELSE whole

\* A long recording: 5000 samples, none of them zero
LongWaveform == [i \in 1..5000 |-> 1 + (i % 2)]

\* The files and block sizes the model enumerates: every short waveform with
\* every small block size and with the default one, and the long recording
\* with the default block size
FileInputs ==
    {<<w, bs>> : w \in SeqsUpTo(SampleValues, MaxSamples),
                 bs \in (1..MaxBlock) \cup {DefaultBlockSize}}
    \cup {<<LongWaveform, DefaultBlockSize>>}

\* A FileAudioSource whose read() has not been called
FileIdle ==
    /\ file_pc = "start"
    /\ waveform = <<>>
    /\ block_size = DefaultBlockSize
    /\ chunks = <<>>
    /\ next_chunk = 0
    /\ file_exc = "none"

FileInit ==
    /\ stream = <<>>
    /\ file_pc = "start"
    /\ \E in \in FileInputs : waveform = in[1] /\ block_size = in[2]
    /\ chunks = <<>>
    /\ next_chunk = 0
    /\ file_exc = "none"
    /\ LazyIdle
    /\ WsIdle
    /\ OthersIdle

\* read(), line 67: loader.load(file) returns the waveform
FileLoad ==
    /\ file_pc = "start"
    /\ file_pc' = "loaded"
    /\ UNCHANGED <<stream, waveform, block_size, chunks, next_chunk, file_exc, lazyVars, wsVars,
                   micVars, torchVars, cfgVars>>

\* read(), line 67: loader.load(file) raises; nothing catches it
FileLoadFails ==
    /\ file_pc = "start"
    /\ file_pc' = "raised"
    /\ file_exc' = "load"
    /\ UNCHANGED <<stream, waveform, block_size, chunks, next_chunk, lazyVars, wsVars,
                   micVars, torchVars, cfgVars>>

\* read(), lines 68-79: the chunks are computed
FileSplit ==
    /\ file_pc = "loaded"
    /\ ~UnfoldRaises(waveform, block_size)
    /\ chunks' = FileChunks(waveform, block_size)
    /\ file_pc' = "emit"
    /\ UNCHANGED <<stream, waveform, block_size, next_chunk, file_exc, lazyVars, wsVars,
                   micVars, torchVars, cfgVars>>

\* read(), line 70: unfold raises on a waveform shorter than a block
FileSplitFails ==
    /\ file_pc = "loaded"
    /\ UnfoldRaises(waveform, block_size)
    /\ file_pc' = "raised"
    /\ file_exc' = "unfold"
    /\ UNCHANGED <<stream, waveform, block_size, chunks, next_chunk, lazyVars, wsVars,
                   micVars, torchVars, cfgVars>>

\* read(), lines 81-85: one iteration of the for loop; the push may raise
FilePush ==
    /\ file_pc = "emit"
    /\ next_chunk < Len(chunks)
    /\ \E raised \in BOOLEAN :
          IF raised
          THEN /\ stream' = stream \o <<OnNext(chunks[next_chunk + 1], TRUE),
                                        OnError("push")>>
          ELSE /\ stream' = Append(stream, OnNext(chunks[next_chunk + 1], FALSE))
    /\ next_chunk' = next_chunk + 1
    /\ UNCHANGED <<file_pc, waveform, block_size, chunks, file_exc, lazyVars, wsVars,
                   micVars, torchVars, cfgVars>>

\* read(), line 86: after the loop
FileComplete ==
    /\ file_pc = "emit"
    /\ next_chunk = Len(chunks)
    /\ stream' = Append(stream, OnCompleted)
    /\ file_pc' = "done"
    /\ UNCHANGED <<waveform, block_size, chunks, next_chunk, file_exc, lazyVars, wsVars,
                   micVars, torchVars, cfgVars>>

FileNext ==
    \/ FileLoad
    \/ FileLoadFails
    \/ FileSplit
    \/ FileSplitFails
    \/ FilePush
    \/ FileComplete

----------------------------------------------------------------------------
(* MicrophoneAudioSource *)

\* The arrays `samples` the device hands to the callback: frames x channels,
\* with the one channel the constructor asks for
MicSamples == {<<<<0>>, <<0>>>>, <<<<0>>, <<1>>>>, <<<<1>>, <<0>>>>}

\* _read_callback, line 105: samples[:, [0]].T, of shape (1, frames)
FirstChannelRow(samples) == <<[i \in 1..Len(samples) |-> samples[i][1]]>>

\* SimpleQueue.put_nowait with the newest block in front
QueuePutFront(queue, block) == <<block>> \o queue

\* SimpleQueue.put_nowait: the queue is unbounded, the block goes to its end
QueuePut(queue, block) == Append(queue, block)

MicInit ==
    /\ stream = <<>>
    /\ MicIdle
    /\ FileIdle /\ LazyIdle /\ WsIdle /\ TorchIdle /\ CfgIdle

\* read(), line 108: self.mic_stream.start()
MicStart ==
    /\ mic_pc = "start"
    /\ mic_pc' = "loop"
    /\ mic_device' = "running"
    /\ UNCHANGED <<stream, mic_queue, mic_captured,
                   fileVars, lazyVars, wsVars, torchVars, cfgVars>>

\* _read_callback, lines 104-105, on the capture thread
MicCallback(samples) ==
    /\ mic_device = "running"
    /\ Len(mic_captured) < MaxCaptured
    /\ mic_captured' = Append(mic_captured, FirstChannelRow(samples))
    /\ mic_queue' = QueuePut(mic_queue, FirstChannelRow(samples))
    /\ UNCHANGED <<stream, mic_pc, mic_device,
                   fileVars, lazyVars, wsVars, torchVars, cfgVars>>

\* The device is stopped or closed from outside: no callback runs any more.
\* self.mic_stream stays the same object, which is true in a boolean context.
MicStop ==
    /\ mic_device = "running"
    /\ mic_device' = "stopped"
    /\ UNCHANGED <<stream, mic_pc, mic_queue, mic_captured,
                   fileVars, lazyVars, wsVars, torchVars, cfgVars>>

\* read(), lines 109-115: one iteration of the while loop. self.queue.get()
\* returns once the queue holds a block; when the push raises, on_error,
\* break and the on_completed after the loop follow.
MicPush(raised) ==
    /\ mic_pc = "loop"
    /\ mic_queue # <<>>
    /\ mic_queue' = Tail(mic_queue)
    /\ IF raised
       THEN /\ stream' = stream \o <<OnNext(Head(mic_queue), TRUE),
                                     OnError("push"), OnCompleted>>
            /\ mic_pc' = "done"
       ELSE /\ stream' = Append(stream, OnNext(Head(mic_queue), FALSE))
            /\ mic_pc' = mic_pc
    /\ UNCHANGED <<mic_device, mic_captured,
                   fileVars, lazyVars, wsVars, torchVars, cfgVars>>

MicRead == \E raised \in BOOLEAN : MicPush(raised)

MicNext ==
    \/ MicStart
    \/ \E samples \in MicSamples : MicCallback(samples)
    \/ MicStop
    \/ \E raised \in BOOLEAN : MicPush(raised)

----------------------------------------------------------------------------
(* TorchStreamAudioSource *)

\* The tensors item[0] the decoder yields: frames x channels
TorchItems == {<<<<0, 0>>, <<1, 1>>>>, <<<<0, 1>>>>, <<<<1>>, <<0>>, <<1>>>>}

RECURSIVE Sum(_)
Sum(row) == IF row = <<>> THEN 0 ELSE Head(row) + Sum(Tail(row))

\* read(), line 210: np.mean(item[0].numpy(), axis=1, keepdims=True).T, of
\* shape (1, frames); each mean is kept as a fraction
ChannelMean(item) ==
    <<[i \in 1..Len(item) |-> Frac(Sum(item[i]), Len(item[i]))]>>

TorchInit ==
    /\ stream = <<>>
    /\ torch_pc = "iterating"
    /\ torch_items \in SeqsUpTo(TorchItems, MaxItems)
    /\ torch_fails_at \in 0..(Len(torch_items) + 1)
    /\ torch_next = 0
    /\ torch_exc = "none"
    /\ torch_failed = FALSE
    /\ FileIdle /\ LazyIdle /\ WsIdle /\ MicIdle /\ CfgIdle

\* The decoder has a next item to yield
TorchHasItem ==
    /\ torch_pc = "iterating"
    /\ torch_next < Len(torch_items)
    /\ torch_fails_at # torch_next + 1

\* read(), lines 207-215: one iteration of the for loop whose push may
\* raise; on_error, break and the on_completed after the loop follow
TorchPush(raised) ==
    /\ TorchHasItem
    /\ torch_next' = torch_next + 1
    /\ IF raised
       THEN /\ stream' = stream \o
                    <<OnNext(ChannelMean(torch_items[torch_next + 1]), TRUE),
                      OnError("push"), OnCompleted>>
            /\ torch_pc' = "done"
            /\ torch_failed' = TRUE
       ELSE /\ stream' = Append(stream,
                    OnNext(ChannelMean(torch_items[torch_next + 1]), FALSE))
            /\ UNCHANGED <<torch_pc, torch_failed>>
    /\ UNCHANGED <<torch_items, torch_fails_at, torch_exc,
                   fileVars, lazyVars, wsVars, micVars, cfgVars>>

\* read(), lines 208-215: the conversion of line 210 raises; on_error, break
\* and the on_completed after the loop follow
TorchConvertFails ==
    /\ TorchHasItem
    /\ torch_next' = torch_next + 1
    /\ stream' = stream \o <<OnError("convert"), OnCompleted>>
    /\ torch_pc' = "done"
    /\ torch_failed' = TRUE
    /\ UNCHANGED <<torch_items, torch_fails_at, torch_exc,
                   fileVars, lazyVars, wsVars, micVars, cfgVars>>

\* read(), line 207: the decoder raises while producing the next item; the
\* for statement is outside the try
TorchDecodeFails ==
    /\ torch_pc = "iterating"
    /\ torch_fails_at = torch_next + 1
    /\ torch_pc' = "raised"
    /\ torch_exc' = "decode"
    /\ UNCHANGED <<stream, torch_items, torch_fails_at, torch_next, torch_failed,
                   fileVars, lazyVars, wsVars, micVars, cfgVars>>

\* read(), lines 207 and 215: the decoder is exhausted
TorchComplete ==
    /\ torch_pc = "iterating"
    /\ torch_next = Len(torch_items)
    /\ torch_fails_at # torch_next + 1
    /\ stream' = Append(stream, OnCompleted)
    /\ torch_pc' = "done"
    /\ UNCHANGED <<torch_items, torch_fails_at, torch_next, torch_exc, torch_failed,
                   fileVars, lazyVars, wsVars, micVars, cfgVars>>

TorchNext ==
    \/ \E raised \in BOOLEAN : TorchPush(raised)
    \/ TorchConvertFails
    \/ TorchDecodeFails
    \/ TorchComplete

----------------------------------------------------------------------------
(* StreamingConfig *)

\* Steps are fractions <<numerator, denominator>> of a second whose
\* denominator is a power of two, so that step * sample_rate is exact in
\* floating point
StepDens == {1, 2, 4, 8}
Steps == (1..MaxStepNum) \X StepDens
SampleRates == {8000, 11025, 16000}

\* Durations and latencies, in steps: step <= latency <= duration
Timings == {t \in (1..MaxWindowSteps) \X (1..MaxWindowSteps) : t[2] <= t[1]}

StreamingConfig(duration, step, latency, sample_rate) ==
    [duration |-> duration, step |-> step, latency |-> latency,
     sample_rate |-> sample_rate]

\* Rounding of n / d (n >= 0, d > 0) to the nearest integer, halves upwards
RintHalfUp(n, d) == (2 * n + d) \div (2 * d)

\* np.rint of n / d (n >= 0, d > 0): the nearest integer, halves to the even
\* neighbour
Rint(n, d) ==
    LET q == n \div d
        r == n % d
    IN IF 2 * r < d THEN q
       ELSE IF 2 * r > d THEN q + 1
       ELSE IF q % 2 = 0 THEN q ELSE q + 1

\* optimal_block_size, line 63: int(np.rint(self.step * self.sample_rate))
OptimalBlockSize(self) ==
    Rint(self.step[1] * self.sample_rate, self.step[2])

CfgInit ==
    /\ stream = <<>>
    /\ cfg_step \in Steps
    /\ cfg_sample_rate \in SampleRates
    /\ cfg_calls = <<>>
    /\ FileIdle /\ LazyIdle /\ WsIdle /\ MicIdle /\ TorchIdle

\* optimal_block_size() of a configuration with the given duration and
\* latency, in steps
CfgCall(timing) ==
    /\ Len(cfg_calls) < MaxCalls
    /\ LET self == StreamingConfig(
                       <<timing[1] * cfg_step[1], cfg_step[2]>>, cfg_step,
                       <<timing[2] * cfg_step[1], cfg_step[2]>>, cfg_sample_rate)
       IN cfg_calls' = Append(cfg_calls,
                              [self |-> self, result |-> OptimalBlockSize(self)])
    /\ UNCHANGED <<stream, cfg_step, cfg_sample_rate,
                   fileVars, lazyVars, wsVars, micVars, torchVars>>

CfgNext ==
    \E timing \in Timings : CfgCall(timing)

----------------------------------------------------------------------------
(* Claims about LazyModel *)

\* Some completed operation is load(), to(), eval() or a call
HasAccess(h) == \E i \in 1..Len(h) : h[i].op \in AccessOps

\* The operation just completed is is_in_memory()
CompletesIsInMemory ==
    /\ Len(history') = Len(history) + 1
    /\ history'[Len(history')].op = "is_in_memory"

C1_State ==
    /\ lazy_started = 0 => ~IsInMemory(model)
    /\ HasAccess(history) => IsInMemory(model) /\ loader_calls = 1
    /\ loader_calls <= 1

C1_Step ==
    /\ model # NoModel => model' # NoModel
    /\ CompletesIsInMemory => loader_calls' = loader_calls
    /\ CompletesIsInMemory =>
          history'[Len(history')].result = (model # NoModel)

\* C1: used from one thread, a LazyModel is not in memory right after
\* construction; once any of load(), to(), eval() or a call has completed it is
\* in memory and the loader has run exactly once, however many operations
\* follow; a loaded model never becomes None again; is_in_memory() never runs
\* the loader.
C1_LoadedOnceOnFirstAccess == []C1_State /\ [][C1_Step]_vars

\* C1 witness: several accesses have completed, the loader ran once, and
\* is_in_memory() has answered both False (before) and True (after)
C1_Witness ==
    /\ Cardinality({i \in 1..Len(history) : history[i].op \in AccessOps}) >= 2
    /\ \E i, j \in 1..Len(history) :
          /\ i < j
          /\ history[i].op = "is_in_memory" /\ ~history[i].result
          /\ history[j].op = "is_in_memory" /\ history[j].result
    /\ loader_calls = 1

\* C2: when several threads make their first access concurrently, the loader
\* is invoked at most once and self.model is assigned at most once.
C2_LoadsOnceUnderConcurrency == loader_calls <= 1 /\ model_assigns <= 1

----------------------------------------------------------------------------
(* Claims about FileAudioSource *)

Terminals(log) == CallsOf(log, {"error", "completed"})

\* read() has ended: it returned, or raised to its caller
FileEnded == file_pc \in {"done", "raised"}

\* read() has ended on a waveform that was loaded
FileEndedLoaded == FileEnded /\ file_exc # "load"

\* The samples of chunk k of a waveform cut in blocks of b (k from 1)
Block(w, b, k) == SubSeq(w, (k - 1) * b + 1, k * b)

\* C3: the calls read() makes on the stream are pushes followed by exactly
\* one terminal call, on_completed or on_error but never both, and nothing
\* after the terminal call.
C3_PushesThenOneTerminal ==
    /\ Cardinality(Terminals(stream)) <= 1
    /\ \A i \in Terminals(stream) : i = Len(stream)
    /\ file_pc = "done" => Cardinality(Terminals(stream)) = 1

\* C4: for a waveform of n samples and block size b, read() pushes
\* ceil(n / b) chunks of b samples each; only when n mod b # 0 is the last
\* chunk padded: its n mod b last samples, then b - (n mod b) zeros.
C4_ChunkCountAndPadding ==
    FileEndedLoaded =>
        LET n == Len(waveform)
            b == block_size
            r == n % b
            count == (n + b - 1) \div b
            pushed == PushedChunks(stream)
        IN /\ Len(pushed) = count
           /\ \A k \in 1..count : Len(pushed[k]) = b
           /\ \A k \in 1..(n \div b) : pushed[k] = Block(waveform, b, k)
           /\ r # 0 => pushed[count] = SubSeq(waveform, n - r + 1, n) \o Zeros(b - r)

\* A file of 5000 samples read in blocks of 1024
IsC5File == Len(waveform) = 5000 /\ block_size = 1024

\* C5 as stated: 5 chunks, the 5th made of 856 samples and 168 zeros
C5_Original ==
    (IsC5File /\ FileEndedLoaded) =>
        LET pushed == PushedChunks(stream)
        IN /\ Len(pushed) = 5
           /\ pushed[5] = SubSeq(waveform, 5000 - 856 + 1, 5000) \o Zeros(168)

\* C5 (amended): for 5000 samples and blocks of 1024, read() pushes exactly
\* 5 chunks, and the 5th is the last 904 samples followed by 120 zeros.
C5_FiveChunksLastPadded ==
    IsC5File =>
        LET pushed == PushedChunks(stream)
        IN /\ Len(pushed) <= 5
           /\ FileEndedLoaded =>
                 /\ Len(pushed) = 5
                 /\ Len(pushed[5]) = 1024
                 /\ SubSeq(pushed[5], 1, 904) = SubSeq(waveform, 4097, 5000)
                 /\ SubSeq(pushed[5], 905, 1024) = Zeros(120)

\* C5 witness: read() returned on the file of 5000 samples
C5_Witness ==
    IsC5File /\ file_pc = "done" /\ Len(PushedChunks(stream)) = 5

\* C6: the pushed chunks, concatenated in push order and cut to the first n
\* samples, are the loaded waveform: chunk k holds samples k*b .. k*b+b-1.
C6_ConcatenationIsWaveform ==
    FileEndedLoaded =>
        LET flat == Flatten(PushedChunks(stream))
        IN /\ Len(flat) >= Len(waveform)
           /\ SubSeq(flat, 1, Len(waveform)) = waveform
           /\ \A k \in 1..Len(PushedChunks(stream)) :
                 Len(PushedChunks(stream)[k]) = block_size

\* C7: when pushing a chunk raises, an error signal carrying the exception
\* follows and no later chunk is pushed.
C7_PushFailureStopsEmission ==
    \A i \in 1..Len(stream) :
        (stream[i].kind = "next" /\ stream[i].raised) =>
            /\ i < Len(stream)
            /\ stream[i + 1].kind = "error" /\ stream[i + 1].exc = "push"
            /\ \A j \in (i + 1)..Len(stream) : stream[j].kind # "next"

\* C8: every run of read() ends with a terminal signal issued and without
\* raising to its caller; a failure to load becomes an error signal.
C8_EndsWithTerminalNoRaise ==
    FileEnded => file_exc = "none" /\ Terminals(stream) # {}

----------------------------------------------------------------------------
(* Claims about WebSocketAudioSource.send *)

\* C9: send() called before read() raises the not-ready RuntimeError for
\* every message and in every calling context, and schedules nothing.
C9_SendBeforeReadRaises ==
    \A i \in 1..Len(ws_sends) :
        ~ws_sends[i].read_running =>
            /\ ws_sends[i].outcome = "raised"
            /\ ws_sends[i].scheduled_on = "none"

\* C10: with the server loop running and a client connected, send() of a
\* non-empty message from another thread does not raise and schedules the
\* message on the server loop; only the server loop uses the connection.
C10_CrossThreadSendIsMarshalled ==
    /\ \A i \in 1..Len(ws_sends) :
          (/\ ws_sends[i].read_running
           /\ ws_sends[i].connected
           /\ ws_sends[i].ctx # "server_loop"
           /\ ws_sends[i].message # "") =>
              /\ ws_sends[i].outcome = "returned"
              /\ ws_sends[i].scheduled_on = "server"
    /\ \A i \in 1..Len(ws_sent) : ws_sent[i].loop = "server"

----------------------------------------------------------------------------
(* Claims about WebSocketAudioSource._ws_handler *)

\* The calls on the stream made by the handler of connection c
CallsBy(c) == {i \in 1..Len(stream) : ws_origin[i] = c}

\* The terminal calls made by the handler of connection c
TerminalsBy(c) == CallsBy(c) \cap Terminals(stream)

RECURSIVE WellFormedIds(_)
\* The ids of the well-formed messages of a sequence of received messages
WellFormedIds(msgs) ==
    IF msgs = <<>> THEN <<>>
    ELSE (IF Head(msgs).kind = "chunk" THEN <<Head(msgs).id>> ELSE <<>>)
         \o WellFormedIds(Tail(msgs))

RECURSIVE PushedIdsBy(_, _)
\* The ids of the chunks pushed by connection c from call i on, in call order
PushedIdsBy(c, i) ==
    IF i > Len(stream) THEN <<>>
    ELSE (IF stream[i].kind = "next" /\ ws_origin[i] = c
          THEN <<stream[i].chunk[2]>> ELSE <<>>)
         \o PushedIdsBy(c, i + 1)

\* C11: with two clients connected and sending audio, the chunks pushed to
\* the stream all come from a single connection.
C11_OneConnectionForwarded ==
    \A i, j \in CallsOf(stream, {"next"}) :
        (conns[ws_origin[i]] = "open" /\ conns[ws_origin[j]] = "open") =>
            ws_origin[i] = ws_origin[j]

\* C12: for each connection, every well-formed message its handler receives
\* is pushed as one chunk, in arrival order; an abnormal close by the peer
\* gives one "error" and no "completed" from that connection, a clean end of
\* its message stream one "completed" and no "error".
C12_ConnectionProtocol ==
    \A c \in 1..MaxConns :
        /\ PushedIdsBy(c, 1) = WellFormedIds(ws_received[c])
        /\ ws_ended_by[c] = "abnormal" =>
              /\ Cardinality(TerminalsBy(c)) = 1
              /\ \A i \in TerminalsBy(c) : stream[i].kind = "error"
        /\ ws_ended_by[c] = "clean" =>
              /\ Cardinality(TerminalsBy(c)) = 1
              /\ \A i \in TerminalsBy(c) : stream[i].kind = "completed"

\* C12 witness: one connection pushed two chunks and was closed abnormally,
\* another one ended cleanly
C12_Witness ==
    \E c, d \in 1..MaxConns :
        /\ Len(PushedIdsBy(c, 1)) = 2
        /\ ws_ended_by[c] = "abnormal"
        /\ ws_ended_by[d] = "clean"

\* C16: a message that cannot be turned into a chunk, or a chunk whose
\* delivery raises, is reported as a terminal "error" signal on the stream.
C16_MessageFailureBecomesError ==
    \A c \in 1..MaxConns :
        ws_ended_by[c] \in {"decode", "push"} =>
            \E i \in TerminalsBy(c) : stream[i].kind = "error"

\* C18: over the lifetime of the source, whatever clients connect and
\* disconnect, at most one terminal call is made on the stream and no chunk
\* is pushed after it.
C18_OneTerminalPerSource ==
    /\ Cardinality(Terminals(stream)) <= 1
    /\ \A i \in Terminals(stream) : i = Len(stream)

----------------------------------------------------------------------------
(* Claims about the pyannote wrappers *)

\* C13: whenever PyannoteEmbeddingModel is called with weights and the loaded
\* model is the WeSpeaker extractor, the model receives the min-max
\* normalized weights and inputs in host memory, also on the first call, made
\* while the wrapper is unloaded.
C13_WeSpeakerGetsNormalizedWeights ==
    \A i \in 1..Len(history) :
        (/\ history[i].op = "embed"
         /\ history[i].kind = "WeSpeaker"
         /\ history[i].weights # NoWeights) =>
            /\ history[i].received = Normalized(history[i].weights)
            /\ history[i].device = "cpu"

\* C20: no operation of a PyannoteSegmentationModel uses self.model while it
\* is None, in whatever order the operations are invoked.
C20_NoUseOfUnloadedModel ==
    lazy_class = "Segmentation" =>
        \A i \in 1..Len(history) :
            history[i].op # "is_in_memory" => history[i].result

----------------------------------------------------------------------------
(* Claims about MicrophoneAudioSource *)

IsPrefix(a, b) == Len(a) <= Len(b) /\ a = SubSeq(b, 1, Len(a))

\* C14: once the device is stopped and the queue is drained, read() goes on
\* to its end: it has returned, or its next step can be taken.
C14_StoppedDeviceEndsRead ==
    (mic_device = "stopped" /\ mic_queue = <<>>) =>
        mic_pc = "done" \/ ENABLED MicRead

\* C19: the blocks pushed are a prefix of the captured blocks in capture
\* order, the blocks pushed and the blocks queued make up the captured
\* blocks while no push failed, the callback can always run while the device
\* runs, and a queued block is eventually pushed unless a push fails.
C19_FifoHandOff ==
    /\ [](IsPrefix(PushedChunks(stream), mic_captured))
    /\ [](mic_pc # "done" =>
            PushedChunks(stream) \o mic_queue = mic_captured)
    /\ []((mic_device = "running" /\ Len(mic_captured) < MaxCaptured) =>
            \A samples \in MicSamples : ENABLED MicCallback(samples))
    /\ \A n \in 1..MaxCaptured :
          (Len(mic_captured) >= n) ~>
              (Len(PushedChunks(stream)) >= n \/ mic_pc = "done")

\* Two blocks pushed while a third, different from the first, waits
C19_Witness ==
    /\ Len(PushedChunks(stream)) = 2
    /\ mic_queue # <<>>
    /\ mic_captured[1] # mic_captured[2]
    /\ mic_pc = "loop"

----------------------------------------------------------------------------
(* Claims about TorchStreamAudioSource *)

TorchEnded == torch_pc \in {"done", "raised"}

\* C15: when read() has ended, nothing was raised to its caller; a failure
\* of the decoder, of a conversion or of a push shows as an error signal
\* after which no chunk is pushed; without failure the stream got one chunk
\* per decoded item, in decode order, then completed.
C15_IterationFailureBecomesError ==
    TorchEnded =>
        /\ torch_exc = "none"
        /\ \A i \in CallsOf(stream, {"error"}) :
              \A j \in (i + 1)..Len(stream) : stream[j].kind # "next"
        /\ IF torch_failed \/ torch_pc = "raised"
           THEN CallsOf(stream, {"error"}) # {}
           ELSE /\ PushedChunks(stream) =
                      [i \in 1..Len(torch_items) |-> ChannelMean(torch_items[i])]
                /\ stream[Len(stream)] = OnCompleted
                /\ CallsOf(stream, {"error"}) = {}

----------------------------------------------------------------------------
(* Claims about StreamingConfig *)

\* |a| for an integer a
Abs(a) == IF a < 0 THEN -a ELSE a

\* C17: each result of optimal_block_size() is an integer at distance at most
\* 1/2 from step * sample_rate, the even one of the two when the distance is
\* 1/2; calls with the same step and sample rate give the same result
\* whatever the duration and latency; 0.5 s at 16000 Hz gives 8000.
C17_NearestInteger ==
    /\ \A i \in 1..Len(cfg_calls) :
          LET c == cfg_calls[i]
              num == c.self.step[1] * c.self.sample_rate
              den == c.self.step[2]
          IN /\ c.result \in Nat
             /\ 2 * Abs(c.result * den - num) <= den
             /\ 2 * Abs(c.result * den - num) = den => c.result % 2 = 0
             /\ (2 * c.self.step[1] = c.self.step[2]
                    /\ c.self.sample_rate = 16000) => c.result = 8000
    /\ \A i, j \in 1..Len(cfg_calls) :
          cfg_calls[i].result = cfg_calls[j].result

\* Two calls with different latencies on a product that ends in one half:
\* 1.5 s at 11025 Hz, 16537.5 samples
C17_Witness ==
    /\ Len(cfg_calls) = 2
    /\ cfg_calls[1].self.latency # cfg_calls[2].self.latency
    /\ cfg_step = <<3, 2>> /\ cfg_sample_rate = 11025
    /\ cfg_calls[2].result = 16538

----------------------------------------------------------------------------
(* Specifications *)

SpecFile == FileInit /\ [][FileNext]_vars

\* One thread uses the LazyModel
LazyInit ==
    stream = <<>> /\ FileIdle /\ WsIdle /\ OthersIdle /\ LazyInitFor({1})

\* Several threads use the same LazyModel
LazyConcInit ==
    /\ stream = <<>> /\ FileIdle /\ WsIdle /\ OthersIdle
    /\ LazyInitFor(1..NumThreads)
    /\ lazy_class = "Segmentation"
    /\ input_device = "cpu"

SpecLazy == LazyInit /\ [][LazyNext]_vars

SpecLazyConc == LazyConcInit /\ [][LazyBaseNext]_vars

\* A WebSocketAudioSource, its clients and the callers of send()
WsInit == stream = <<>> /\ FileIdle /\ LazyIdle /\ WsIdle /\ OthersIdle

SpecWs == WsInit /\ [][WsNext]_vars

\* A WebSocketAudioSource and its clients, with no caller of send()
SpecWsHandler == WsInit /\ [][WsHandlerNext]_vars

\* A MicrophoneAudioSource: read() on one thread, the capture callback on
\* another
SpecMic == MicInit /\ [][MicNext]_vars

\* The thread of read() is scheduled as long as it can take a step
SpecMicFair == SpecMic /\ WF_vars(MicRead)

\* A TorchStreamAudioSource and its decoder
SpecTorch == TorchInit /\ [][TorchNext]_vars

\* Calls of optimal_block_size() on configurations of one step and sample rate
SpecCfg == CfgInit /\ [][CfgNext]_vars

====
